---- MODULE Spec2Model ----
(***************************************************************************)
(* A model of cargo-trim's accounting core: the CrateDetail store          *)
(* (src/src/crate_detail.rs) and the filesystem helpers (src/src/utils.rs). *)
(*                                                                         *)
(* Strings (file names, keys, labels) are sequences of one-character       *)
(* strings, so that splitting, joining and substring search are computed    *)
(* and not assumed.  Sizes are u64 in the source; the model keeps every     *)
(* total far below 2^64, where u64 addition is integer addition.            *)
(***************************************************************************)
EXTENDS Integers, Sequences, FiniteSets, Bags, TLC

VARIABLES
    store,  \* the CrateDetail value: five maps from key to CrateInfo.size
    fs,     \* the filesystem the operations read (and, for deletion, change)
    op,     \* the last operation called, with its arguments
    ret,    \* what the last operation returned
    pre,    \* history: the store or filesystem as the last operation found it
    log,    \* history: the bag of add_*_crate_* calls made so far
    nops    \* history: the number of operations called so far

vars == <<store, fs, op, ret, pre, log, nops>>

(***************************************************************************)
(* Bounds of the model.                                                    *)
(***************************************************************************)
MaxSize == 2        \* sizes passed to the add operations, file lengths: 1..MaxSize
MaxCalls == 3       \* add calls in one run of SpecAdd
MaxOps == 2         \* operations in one run of Spec
MaxNodes == 4       \* nodes of a tree handed to get_size in SpecSize
MaxEntries == 2     \* crate entries on one disk of SpecScan
MaxTokens == 3      \* hyphen-separated tokens of a name of SpecSplit

(***************************************************************************)
(* Generic helpers.                                                        *)
(***************************************************************************)
PFun(D, R) == UNION {[S -> R] : S \in SUBSET D}

RECURSIVE SumOver(_, _)
\* the sum of f[x] over the finite set S
SumOver(S, f) ==
    IF S = {} THEN 0
    ELSE LET x == CHOOSE y \in S : TRUE
         IN  f[x] + SumOver(S \ {x}, f)

\* Result<T>: Ok(v), or Err (an anyhow::Error, its text not modelled); a panic
\* (an index out of bounds) is a third outcome, which ends the run
Ok(v) == [tag |-> "ok", val |-> v]
Err == [tag |-> "err", val |-> "io"]
Panic == [tag |-> "panic", val |-> "index"]
NoRet == Ok("unit")
IsOk(r) == r.tag = "ok"
NoOp == [name |-> "none"]
NoPre == "none"
NoFs == "none"

(***************************************************************************)
(* The store: crate_detail.rs, struct CrateDetail and its add operations.   *)
(***************************************************************************)
NonBinCats == {"git_crates_source", "registry_crates_source",
               "git_crates_archive", "registry_crates_archive"}
Cats == {"bin"} \cup NonBinCats

EmptyMap == <<>>

\* #[derive(Default)]: five empty HashMaps
CrateDetailDefault == [c \in Cats |-> EmptyMap]

hashmap_insert_alone(m, k, v) == (k :> v)

\* HashMap::insert: the key maps to v whether or not it was present
hashmap_insert(m, k, v) == [x \in (DOMAIN m) \cup {k} |-> IF x = k THEN v ELSE m[x]]

add_crate_to_hash_map_overwrite(hashmap, crate_name, size) ==
    hashmap_insert(hashmap, crate_name, size)

add_crate_to_hash_map(hashmap, crate_name, size) ==
    IF crate_name \in DOMAIN hashmap
    THEN [hashmap EXCEPT ![crate_name] = @ + size]
    ELSE hashmap_insert(hashmap, crate_name, size)

\* the effect of add_bin on a CrateDetail value
with_bin(cd, bin_name, size) ==
    [cd EXCEPT !["bin"] = hashmap_insert(@, bin_name, size)]

\* the effect of add_<cat> on a CrateDetail value, cat one of NonBinCats
with_crate(cd, cat, crate_name, size) ==
    [cd EXCEPT ![cat] = add_crate_to_hash_map(@, crate_name, size)]

StoreKeys == {<<"a">>, <<"b">>}
Sizes == 1..MaxSize

Call(cat, k, s) == [cat |-> cat, key |-> k, size |-> s]

\* one add_<cat>(crate_name, size) call on the store
AddCrate(cat, k, s) ==
    /\ ret.tag # "panic"
    /\ store' = with_crate(store, cat, k, s)
    /\ op' = [name |-> "add_" \o cat, key |-> k, size |-> s]
    /\ ret' = NoRet
    /\ pre' = store
    /\ log' = log (+) SetToBag({Call(cat, k, s)})
    /\ nops' = nops + 1
    /\ UNCHANGED fs

add_git_crate_source(k, s) == AddCrate("git_crates_source", k, s)
add_registry_crate_source(k, s) == AddCrate("registry_crates_source", k, s)
add_git_crate_archive(k, s) == AddCrate("git_crates_archive", k, s)
add_registry_crate_archive(k, s) == AddCrate("registry_crates_archive", k, s)

add_bin(k, s) ==
    /\ ret.tag # "panic"
    /\ store' = with_bin(store, k, s)
    /\ op' = [name |-> "add_bin", key |-> k, size |-> s]
    /\ ret' = NoRet
    /\ pre' = store
    /\ nops' = nops + 1
    /\ UNCHANGED <<fs, log>>

(***************************************************************************)
(* The filesystem, as std::fs and std::path::Path show it.  A node is what  *)
(* one path names: a regular file with its length, a directory with its     *)
(* entries, a directory that cannot be listed (permission denied), a         *)
(* dangling symbolic link (read_dir lists it; every query that follows the   *)
(* link fails), or nothing at all.                                          *)
(***************************************************************************)
File(n) == [kind |-> "file", len |-> n, ents |-> <<>>]
Dir(f) == [kind |-> "dir", len |-> 0, ents |-> f]
Locked == [kind |-> "locked", len |-> 0, ents |-> <<>>]
Broken == [kind |-> "broken", len |-> 0, ents |-> <<>>]
Absent == [kind |-> "absent", len |-> 0, ents |-> <<>>]

\* Path::exists, Path::is_dir, Path::is_file: false when the query fails
path_exists(n) == n.kind \in {"file", "dir", "locked"}
path_is_dir(n) == n.kind \in {"dir", "locked"}
path_is_file(n) == n.kind = "file"

\* fs::read_dir(path)?: the names of the entries, or the error
read_dir(n) == IF n.kind = "dir" THEN Ok(DOMAIN n.ents) ELSE Err

metadata_len_lenient(n) == IF n.kind = "file" THEN Ok(n.len) ELSE Ok(0)

\* path.metadata()?.len() of a path that is not a directory
metadata_len(n) == IF n.kind = "file" THEN Ok(n.len) ELSE Err

RECURSIVE get_size(_)
RECURSIVE get_size_entries(_, _, _)

\* the for loop of get_size over the entries still to visit.  read_dir's
\* order is unspecified; the result does not depend on it (the total is a
\* sum and the error carries no payload), so one order is computed.
get_size_entries(dir, todo, total_size) ==
    IF todo = {} THEN Ok(total_size)
    ELSE LET e == CHOOSE x \in todo : TRUE
             entry_path == dir.ents[e]
             r == IF path_is_dir(entry_path) THEN get_size(entry_path)
                  ELSE metadata_len(entry_path)
         IN  IF IsOk(r) THEN get_size_entries(dir, todo \ {e}, total_size + r.val)
             ELSE Err

get_size(path) ==
    IF path_is_dir(path)
    THEN LET rd == read_dir(path)
         IN  IF IsOk(rd) THEN get_size_entries(path, rd.val, 0) ELSE Err
    ELSE metadata_len(path)

(***************************************************************************)
(* Paths into a tree, for stating what an operation should have done.        *)
(***************************************************************************)
RECURSIVE PathsOf(_)
\* every path (a sequence of names) to a node of the tree, the root's <<>> included
PathsOf(n) ==
    {<<>>} \cup
    (IF n.kind = "dir"
     THEN UNION {{<<e>> \o p : p \in PathsOf(n.ents[e])} : e \in DOMAIN n.ents}
     ELSE {})

RECURSIVE NodeAt(_, _)
NodeAt(n, p) ==
    IF p = <<>> THEN n
    ELSE IF n.kind = "dir" /\ Head(p) \in DOMAIN n.ents
         THEN NodeAt(n.ents[Head(p)], Tail(p))
         ELSE Absent

RegularFiles(n) == {p \in PathsOf(n) : NodeAt(n, p).kind = "file"}
TotalLen(n) == SumOver(RegularFiles(n), [p \in RegularFiles(n) |-> NodeAt(n, p).len])
Unreadable(n) == \E p \in PathsOf(n) : NodeAt(n, p).kind \in {"locked", "broken", "absent"}

(***************************************************************************)
(* SpecSize: get_size on one path of a filesystem.                          *)
(***************************************************************************)
TreeNames == {<<"x">>, <<"y">>}
Leaves == {File(n) : n \in Sizes} \cup {Locked, Broken}

RECURSIVE TreesUpTo(_)
\* the trees of at most n nodes over TreeNames
TreesUpTo(n) ==
    IF n = 0 THEN {}
    ELSE Leaves \cup {Dir(<<>>)}
         \cup {Dir(e :> t) : e \in TreeNames, t \in TreesUpTo(n - 1)}
         \cup UNION {{Dir((<<"x">> :> t1) @@ (<<"y">> :> t2)) :
                        t1 \in TreesUpTo(i), t2 \in TreesUpTo(n - 1 - i)} :
                     i \in 1..(n - 2)}

SizeTrees == TreesUpTo(MaxNodes) \cup {Absent}

InitSize ==
    /\ store = CrateDetailDefault
    /\ fs \in SizeTrees
    /\ op = NoOp
    /\ ret = NoRet
    /\ pre = NoPre
    /\ log = EmptyBag
    /\ nops = 0

CallGetSize ==
    /\ op.name = "none"
    /\ op' = [name |-> "get_size"]
    /\ ret' = get_size(fs)
    /\ pre' = fs
    /\ nops' = nops + 1
    /\ UNCHANGED <<store, fs, log>>

NextSize == CallGetSize

SpecSize == InitSize /\ [][NextSize]_vars

\* C6: get_size returns the exact sum of the lengths of the regular files of
\* the subtree when every entry of it can be read, and the error, never a
\* total, when some entry cannot.
C6_ExactOrError ==
    op.name = "get_size" =>
        ret = IF Unreadable(fs) THEN Err ELSE Ok(TotalLen(fs))

\* a total over files at two depths of a directory tree
C6_Witness ==
    /\ op.name = "get_size"
    /\ \E p \in RegularFiles(fs), q \in RegularFiles(fs) : Len(p) = 1 /\ Len(q) = 2
    /\ IsOk(ret)
    /\ ret.val = TotalLen(fs)
    /\ ret.val >= 3

(***************************************************************************)
(* Strings: str::rsplitn, format!, Vec::sort and Vec::dedup.                *)
(***************************************************************************)
\* the byte of each character the model's names use (String's Ord is bytewise)
CharCode ==
    [c \in {"-", ".", "1", "2", "A", "D", "E", "H", "a", "b", "c", "s"} |->
        CASE c = "-" -> 45 [] c = "." -> 46 [] c = "1" -> 49 [] c = "2" -> 50
          [] c = "A" -> 65 [] c = "D" -> 68 [] c = "E" -> 69 [] c = "H" -> 72
          [] c = "a" -> 97 [] c = "b" -> 98 [] c = "c" -> 99 [] c = "s" -> 115]

RECURSIVE StrLess(_, _)
\* a < b for strings
StrLess(a, b) ==
    IF b = <<>> THEN FALSE
    ELSE IF a = <<>> THEN TRUE
    ELSE IF Head(a) = Head(b) THEN StrLess(Tail(a), Tail(b))
    ELSE CharCode[Head(a)] < CharCode[Head(b)]

RECURSIVE sorted_insert(_, _)
sorted_insert(v, x) ==
    IF v = <<>> THEN <<x>>
    ELSE IF StrLess(x, Head(v)) THEN <<x>> \o v
    ELSE <<Head(v)>> \o sorted_insert(Tail(v), x)

RECURSIVE vec_sort(_)
\* Vec::sort
vec_sort(v) == IF v = <<>> THEN <<>> ELSE sorted_insert(vec_sort(Tail(v)), Head(v))

vec_dedup_none(v) == v

RECURSIVE vec_dedup(_)
\* Vec::dedup: consecutive repeated elements removed
vec_dedup(v) ==
    IF Len(v) <= 1 THEN v
    ELSE IF v[1] = v[2] THEN vec_dedup(Tail(v))
    ELSE <<v[1]>> \o vec_dedup(Tail(v))

\* the places of the separator in a name
SepAt(name, sep) == {i \in 1..Len(name) : name[i] = sep}
MaxOf(S) == CHOOSE i \in S : \A j \in S : j <= i
MinOf(S) == CHOOSE i \in S : \A j \in S : i <= j

rsplitn2_first(name, sep) ==
    IF SepAt(name, sep) = {} THEN <<name>>
    ELSE LET i == MinOf(SepAt(name, sep))
         IN  <<SubSeq(name, i + 1, Len(name)), SubSeq(name, 1, i - 1)>>

\* name.rsplitn(2, sep).collect::<Vec<&str>>(): what follows the last sep, then
\* what precedes it; the name alone when it holds no sep
rsplitn2(name, sep) ==
    IF SepAt(name, sep) = {} THEN <<name>>
    ELSE LET i == MaxOf(SepAt(name, sep))
         IN  <<SubSeq(name, i + 1, Len(name)), SubSeq(name, 1, i - 1)>>

HEAD == <<"H", "E", "A", "D">>

(***************************************************************************)
(* The scanners: list_installed_bin, list_installed_crate_registry and      *)
(* list_installed_crate_git.  A scan carries the store, the Vec of names     *)
(* pushed so far and how it stands: "ok", "err" (a ? returned early) or      *)
(* "panic" (split_name[1] on a one-element Vec).                             *)
(***************************************************************************)
Scan(cd, out) == [st |-> cd, out |-> out, res |-> "ok"]
Stopped(acc, how) == [acc EXCEPT !.res = how]

\* the body of the loop of list_installed_bin
bin_entry(acc, outer, e, entry) ==
    LET bin_size == get_size(entry)
    IN  IF ~IsOk(bin_size) THEN Stopped(acc, "err")
        ELSE [acc EXCEPT !.st = with_bin(@, e, bin_size.val), !.out = Append(@, e)]

\* the body of the inner loop over a registry folder of src_dir
registry_src_entry(acc, outer, e, entry) ==
    LET crate_size == get_size(entry)
    IN  IF ~IsOk(crate_size) THEN Stopped(acc, "err")
        ELSE [acc EXCEPT !.st = with_crate(@, "registry_crates_source", e, crate_size.val),
                         !.out = Append(@, e)]

\* the body of the inner loop over a registry folder of cache_dir
registry_cache_entry(acc, outer, e, entry) ==
    LET crate_size == get_size(entry)
        split_name == rsplitn2(e, ".")
    IN  IF ~IsOk(crate_size) THEN Stopped(acc, "err")
        ELSE IF Len(split_name) < 2 THEN Stopped(acc, "panic")
        ELSE [acc EXCEPT !.st = with_crate(@, "registry_crates_archive", split_name[2],
                                           crate_size.val),
                         !.out = Append(@, split_name[2])]

\* the body of the inner loop over a repository folder of checkout_dir
git_checkout_entry(acc, outer, e, git_sha_entry) ==
    LET crate_size == get_size(git_sha_entry)
        split_name == rsplitn2(outer, "-")
    IN  IF ~IsOk(crate_size) THEN Stopped(acc, "err")
        ELSE IF Len(split_name) < 2 THEN Stopped(acc, "panic")
        ELSE LET full_name == split_name[2] \o <<"-">> \o e
             IN  [acc EXCEPT !.st = with_crate(@, "git_crates_archive", full_name,
                                               crate_size.val),
                             !.out = Append(@, full_name)]

\* the body of the loop over db_dir
git_db_entry(acc, outer, e, entry) ==
    LET crate_size == get_size(entry)
        split_name == rsplitn2(e, "-")
    IN  IF ~IsOk(crate_size) THEN Stopped(acc, "err")
        ELSE IF Len(split_name) < 2 THEN Stopped(acc, "panic")
        ELSE LET full_name == split_name[2] \o <<"-">> \o HEAD
             IN  [acc EXCEPT !.st = with_crate(@, "git_crates_source", full_name,
                                               crate_size.val),
                             !.out = Append(@, full_name)]

loop_body(which, acc, outer, e, entry) ==
    CASE which = "bin" -> bin_entry(acc, outer, e, entry)
      [] which = "src" -> registry_src_entry(acc, outer, e, entry)
      [] which = "cache" -> registry_cache_entry(acc, outer, e, entry)
      [] which = "checkout" -> git_checkout_entry(acc, outer, e, entry)
      [] which = "db" -> git_db_entry(acc, outer, e, entry)

RECURSIVE for_entries(_, _, _, _, _)
\* `for entry in <entries of dir> { body }`: read_dir yields the entries in an
\* order the filesystem chooses, so this is the set of the scans the loop can
\* end in, one per order (they differ only in the Vec's order, and in what
\* was done before the first failure)
for_entries(which, acc, outer, dir, todo) ==
    IF acc.res # "ok" \/ todo = {} THEN {acc}
    ELSE UNION {for_entries(which, loop_body(which, acc, outer, e, dir.ents[e]),
                            outer, dir, todo \ {e}) : e \in todo}

\* `for entry in fs::read_dir(dir).context(..)? { body }`
read_and_loop(which, acc, outer, dir) ==
    IF acc.res # "ok" THEN {acc}
    ELSE IF ~IsOk(read_dir(dir)) THEN {Stopped(acc, "err")}
    ELSE for_entries(which, acc, outer, dir, read_dir(dir).val)

RECURSIVE for_folders(_, _, _, _)
\* the outer loop of a two-level walk: each entry of the root is read as a
\* directory and its entries go through the body
for_folders(which, acc, root, todo) ==
    IF acc.res # "ok" \/ todo = {} THEN {acc}
    ELSE UNION {UNION {for_folders(which, a, root, todo \ {f}) :
                         a \in read_and_loop(which, acc, f, root.ents[f])} :
                f \in todo}

\* `if root.exists() { for .. in read_dir(root)? { for .. in read_dir(..)? {..} } }`
walk_two_levels(which, acc, root) ==
    IF acc.res # "ok" \/ ~path_exists(root) THEN {acc}
    ELSE IF ~IsOk(read_dir(root)) THEN {Stopped(acc, "err")}
    ELSE for_folders(which, acc, root, read_dir(root).val)

walk_one_level_unchecked(which, acc, root) ==
    read_and_loop(which, acc, <<>>, root)

\* `if root.exists() { for .. in read_dir(root)? {..} }`
walk_one_level(which, acc, root) ==
    IF acc.res # "ok" \/ ~path_exists(root) THEN {acc}
    ELSE read_and_loop(which, acc, <<>>, root)

\* the scans list_installed_bin(bin_dir) can end in
scan_bin(cd, bin_dir) == walk_one_level("bin", Scan(cd, <<>>), bin_dir)

\* the scans list_installed_crate_registry(src_dir, cache_dir) can end in
scan_registry(cd, src_dir, cache_dir) ==
    UNION {walk_two_levels("cache", a, cache_dir) :
             a \in walk_two_levels("src", Scan(cd, <<>>), src_dir)}

\* the scans list_installed_crate_git(checkout_dir, db_dir) can end in
scan_git(cd, checkout_dir, db_dir) ==
    UNION {walk_one_level("db", a, db_dir) :
             a \in walk_two_levels("checkout", Scan(cd, <<>>), checkout_dir)}

\* what the scanner returns: the Vec after its closing sort (and dedup)
scan_result(acc, sorted) ==
    CASE acc.res = "ok" -> Ok(sorted)
      [] acc.res = "err" -> Err
      [] acc.res = "panic" -> Panic

list_installed_bin ==
    /\ ret.tag # "panic"
    /\ \E acc \in scan_bin(store, fs.bin) :
          /\ store' = acc.st
          /\ ret' = scan_result(acc, vec_sort(acc.out))
    /\ op' = [name |-> "list_installed_bin"]
    /\ pre' = store
    /\ nops' = nops + 1
    /\ UNCHANGED <<fs, log>>

list_installed_crate_registry ==
    /\ ret.tag # "panic"
    /\ \E acc \in scan_registry(store, fs.src, fs.cache) :
          /\ store' = acc.st
          /\ ret' = scan_result(acc, vec_dedup(vec_sort(acc.out)))
    /\ op' = [name |-> "list_installed_crate_registry"]
    /\ pre' = store
    /\ nops' = nops + 1
    /\ UNCHANGED <<fs, log>>

list_installed_crate_git ==
    /\ ret.tag # "panic"
    /\ \E acc \in scan_git(store, fs.checkout, fs.db) :
          /\ store' = acc.st
          /\ ret' = scan_result(acc, vec_dedup(vec_sort(acc.out)))
    /\ op' = [name |-> "list_installed_crate_git"]
    /\ pre' = store
    /\ nops' = nops + 1
    /\ UNCHANGED <<fs, log>>

(***************************************************************************)
(* SpecScan: one scanner run on a fresh store, over a disk that holds the   *)
(* five directories the scanners are given.                                 *)
(***************************************************************************)
Disk(bin, src, cache, checkout, db) ==
    [bin |-> bin, src |-> src, cache |-> cache, checkout |-> checkout, db |-> db]

\* what a crate entry can be: a file, a directory tree (2 bytes in all), or a
\* dangling link, whose size cannot be taken
EntryNodes ==
    {File(1), Dir((<<"x">> :> File(1)) @@ (<<"y">> :> Dir(<<"x">> :> File(1)))), Broken}

BinNames == {<<"a">>, <<"b">>}
FolderNames == {<<"r">>, <<"s">>}
SrcNames == {<<"a">>, <<"a", ".", "b">>}
CacheNames == {<<"a", ".", "c">>, <<"a", ".", "b", ".", "c">>, <<"b">>}
RepoNames == {<<"a", "-", "1">>, <<"a", "-", "2">>, <<"b">>}
ShaNames == {<<"s">>, HEAD}
DbNames == {<<"a", "-", "1">>, <<"a", "-", "b", "-", "2">>, <<"b">>}

\* a folder of entries, or a stray file where a folder is expected
FolderNodes(names) == {Dir(f) : f \in PFun(names, EntryNodes)} \cup {File(1)}
OneLevelRoots(names) == {Absent, Locked} \cup {Dir(f) : f \in PFun(names, EntryNodes)}
TwoLevelRoots(names) ==
    {Absent, Locked} \cup {Dir(g) : g \in PFun(FolderNames, FolderNodes(names))}

BinRoots == OneLevelRoots(BinNames)
SrcRoots == TwoLevelRoots(SrcNames)
CacheRoots == TwoLevelRoots(CacheNames)
CheckoutRoots ==
    {Absent, Locked} \cup {Dir(g) : g \in PFun(RepoNames, FolderNodes(ShaNames))}
DbRoots == OneLevelRoots(DbNames)

\* the entries a walk of the root visits, as paths from the root
Entries1(root) == {<<e>> : e \in DOMAIN root.ents}
Entries2(root) ==
    UNION {{<<f, e>> : e \in DOMAIN root.ents[f].ents} : f \in DOMAIN root.ents}

SrcRootsOf(n) == {r \in SrcRoots : Cardinality(Entries2(r)) = n}
CacheRootsOf(n) == {r \in CacheRoots : Cardinality(Entries2(r)) = n}
CheckoutRootsOf(n) == {r \in CheckoutRoots : Cardinality(Entries2(r)) = n}
DbRootsOf(n) == {r \in DbRoots : Cardinality(Entries1(r)) = n}

Splits == {ij \in (0..MaxEntries) \X (0..MaxEntries) : ij[1] + ij[2] <= MaxEntries}

\* the disks of SpecScan: the directories of one scanner, the others absent
IsScanDisk(d) ==
    \/ \E b \in BinRoots : d = Disk(b, Absent, Absent, Absent, Absent)
    \/ \E ij \in Splits : \E sr \in SrcRootsOf(ij[1]), ca \in CacheRootsOf(ij[2]) :
          d = Disk(Absent, sr, ca, Absent, Absent)
    \/ \E ij \in Splits : \E co \in CheckoutRootsOf(ij[1]), db \in DbRootsOf(ij[2]) :
          d = Disk(Absent, Absent, Absent, co, db)

InitScan ==
    /\ store = CrateDetailDefault
    /\ IsScanDisk(fs)
    /\ op = NoOp
    /\ ret = NoRet
    /\ pre = NoPre
    /\ log = EmptyBag
    /\ nops = 0

Fresh == op.name = "none"

NextScan ==
    \/ Fresh /\ list_installed_bin
    \/ Fresh /\ list_installed_crate_registry
    \/ Fresh /\ list_installed_crate_git

SpecScan == InitScan /\ [][NextScan]_vars

(***************************************************************************)
(* What a scan should record, read off the disk.                            *)
(***************************************************************************)
Walks == {"src", "cache", "checkout", "db"}

RootOf(which) ==
    CASE which = "src" -> fs.src [] which = "cache" -> fs.cache
      [] which = "checkout" -> fs.checkout [] which = "db" -> fs.db

CatOf(which) ==
    CASE which = "src" -> "registry_crates_source"
      [] which = "cache" -> "registry_crates_archive"
      [] which = "checkout" -> "git_crates_archive"
      [] which = "db" -> "git_crates_source"

EntriesOf(which) ==
    IF which = "db" THEN Entries1(RootOf(which)) ELSE Entries2(RootOf(which))

\* the name up to its last separator
BeforeLast(name, sep) == SubSeq(name, 1, MaxOf(SepAt(name, sep)) - 1)

\* the canonical key of the physical entry at path p
KeyOf(which, p) ==
    CASE which = "src" -> p[2]
      [] which = "cache" -> BeforeLast(p[2], ".")
      [] which = "checkout" -> BeforeLast(p[1], "-") \o <<"-">> \o p[2]
      [] which = "db" -> BeforeLast(p[1], "-") \o <<"-", "H", "E", "A", "D">>

ExpectedKeys(which) == {KeyOf(which, p) : p \in EntriesOf(which)}

EntriesFor(which, k) == {p \in EntriesOf(which) : KeyOf(which, p) = k}

ExpectedSize(which, k) ==
    SumOver(EntriesFor(which, k),
            [p \in EntriesFor(which, k) |-> get_size(NodeAt(RootOf(which), p)).val])

Recorded(which) ==
    /\ DOMAIN store[CatOf(which)] = ExpectedKeys(which)
    /\ \A k \in ExpectedKeys(which) : store[CatOf(which)][k] = ExpectedSize(which, k)

Untouched(cat) == store[cat] = pre[cat]

\* the walks the last operation made
WalksDone ==
    CASE op.name = "list_installed_crate_registry" -> {"src", "cache"}
      [] op.name = "list_installed_crate_git" -> {"checkout", "db"}
      [] OTHER -> {}

\* C2: after a registry scan or a git scan that succeeds on a fresh store,
\* each of the scanner's two categories records exactly the canonical keys of
\* the physical entries of its root, each with the sum of the get_size sizes
\* of the entries that map to it; the other categories are as they were.
C2_ScanRecordsSums ==
    /\ (op.name = "list_installed_crate_registry" /\ IsOk(ret) /\ pre = CrateDetailDefault)
          => /\ Recorded("src") /\ Recorded("cache")
             /\ \A cat \in Cats \ {CatOf("src"), CatOf("cache")} : Untouched(cat)
    /\ (op.name = "list_installed_crate_git" /\ IsOk(ret) /\ pre = CrateDetailDefault)
          => /\ Recorded("checkout") /\ Recorded("db")
             /\ \A cat \in Cats \ {CatOf("checkout"), CatOf("db")} : Untouched(cat)

\* two physical entries in different folders were merged under one key
C2_Witness ==
    /\ op.name \in {"list_installed_crate_registry", "list_installed_crate_git"}
    /\ IsOk(ret)
    /\ \E which \in WalksDone : \E k \in ExpectedKeys(which) :
          /\ \E p, q \in EntriesFor(which, k) : p[1] # q[1]
          /\ store[CatOf(which)][k] = 3

StrictlySorted(v) == \A i \in 1..(Len(v) - 1) : StrLess(v[i], v[i + 1])
Elems(v) == {v[i] : i \in 1..Len(v)}
Scanners == {"list_installed_bin", "list_installed_crate_registry",
             "list_installed_crate_git"}

\* C5: a scanner that succeeds (here on a fresh store) returns a list in
\* strictly ascending order, hence without duplicates, whose elements are
\* exactly the keys the run put into the store; a key found in both the
\* source and the cache directory is listed once and has its own size in
\* each of the two categories.
C5_SortedDistinctKeys ==
    (op.name \in Scanners /\ IsOk(ret) /\ pre = CrateDetailDefault) =>
        /\ StrictlySorted(ret.val)
        /\ Elems(ret.val) = UNION {DOMAIN store[cat] : cat \in Cats}
        /\ op.name = "list_installed_crate_registry" =>
              \A k \in ExpectedKeys("src") \cap ExpectedKeys("cache") :
                  /\ Cardinality({i \in 1..Len(ret.val) : ret.val[i] = k}) = 1
                  /\ store["registry_crates_source"][k] = ExpectedSize("src", k)
                  /\ store["registry_crates_archive"][k] = ExpectedSize("cache", k)

\* a key found in the source and in the cache directory, with different sizes
C5_Witness ==
    /\ op.name = "list_installed_crate_registry"
    /\ IsOk(ret)
    /\ \E k \in ExpectedKeys("src") \cap ExpectedKeys("cache") :
          /\ ret.val = <<k>>
          /\ store["registry_crates_source"][k] # store["registry_crates_archive"][k]

EmptyDir == Dir(<<>>)

\* the store and the result are those of one of the given scans
EndsAsOneOf(scans) ==
    \E a \in scans : store = a.st /\ ret = scan_result(a, vec_dedup(vec_sort(a.out)))

\* C7: a scanner given a root that does not exist handles it as it would an
\* empty directory: that root's category is left as it was, the other root
\* is scanned as usual (its entries are recorded when the scan succeeds), and
\* with every root missing the scanner returns Ok of the empty list and
\* leaves the store unchanged.
C7_MissingRootIsEmpty ==
    /\ (op.name = "list_installed_bin" /\ ~path_exists(fs.bin))
          => ret = Ok(<<>>) /\ store = pre
    /\ (op.name = "list_installed_crate_registry" /\ ~path_exists(fs.src))
          => /\ Untouched("registry_crates_source")
             /\ EndsAsOneOf(scan_registry(pre, EmptyDir, fs.cache))
             /\ (IsOk(ret) /\ pre = CrateDetailDefault) => Recorded("cache")
    /\ (op.name = "list_installed_crate_registry" /\ ~path_exists(fs.cache))
          => /\ Untouched("registry_crates_archive")
             /\ EndsAsOneOf(scan_registry(pre, fs.src, EmptyDir))
             /\ (IsOk(ret) /\ pre = CrateDetailDefault) => Recorded("src")
    /\ (op.name = "list_installed_crate_registry"
            /\ ~path_exists(fs.src) /\ ~path_exists(fs.cache))
          => ret = Ok(<<>>) /\ store = pre
    /\ (op.name = "list_installed_crate_git" /\ ~path_exists(fs.checkout))
          => /\ Untouched("git_crates_archive")
             /\ EndsAsOneOf(scan_git(pre, EmptyDir, fs.db))
             /\ (IsOk(ret) /\ pre = CrateDetailDefault) => Recorded("db")
    /\ (op.name = "list_installed_crate_git" /\ ~path_exists(fs.db))
          => /\ Untouched("git_crates_source")
             /\ EndsAsOneOf(scan_git(pre, fs.checkout, EmptyDir))
             /\ (IsOk(ret) /\ pre = CrateDetailDefault) => Recorded("checkout")
    /\ (op.name = "list_installed_crate_git"
            /\ ~path_exists(fs.checkout) /\ ~path_exists(fs.db))
          => ret = Ok(<<>>) /\ store = pre

\* the git scanner, the checkout directory missing, recorded the database's
\* entries
C7_Witness ==
    /\ op.name = "list_installed_crate_git"
    /\ fs.checkout = Absent
    /\ path_exists(fs.db)
    /\ IsOk(ret)
    /\ Len(ret.val) = 2
    /\ store["git_crates_archive"] = EmptyMap
    /\ DOMAIN store["git_crates_source"] = Elems(ret.val)

(***************************************************************************)
(* Lookups: get_hashmap_crate_size, find_size_*_all and find.  An f64 x is   *)
(* kept as the integer x * 1000^2, so that (size as f64) / 1000^2 is kept as  *)
(* size itself and 0.0 as 0; sums in the model's range are exact.            *)
(***************************************************************************)
get_hashmap_crate_size(hashmap, crate_name) ==
    IF crate_name \in DOMAIN hashmap THEN hashmap[crate_name] ELSE 0

find_size_git_source(cd, k) == get_hashmap_crate_size(cd["git_crates_source"], k)
find_size_registry_source(cd, k) == get_hashmap_crate_size(cd["registry_crates_source"], k)
find_size_git_archive(cd, k) == get_hashmap_crate_size(cd["git_crates_archive"], k)
find_size_registry_archive(cd, k) == get_hashmap_crate_size(cd["registry_crates_archive"], k)

find_size_git_all(cd, k) == find_size_git_archive(cd, k) + find_size_git_source(cd, k)
find_size_registry_all(cd, k) ==
    find_size_registry_archive(cd, k) + find_size_registry_source(cd, k)

\* str::contains: the needle is a substring of the string
str_contains(hay, needle) ==
    \E i \in 0..(Len(hay) - Len(needle)) : SubSeq(hay, i + 1, i + Len(needle)) = needle

REGISTRY == <<"R", "E", "G", "I", "S", "T", "R", "Y">>
GIT == <<"G", "I", "T">>

find_git_first(cd, crate_name, location) ==
    IF str_contains(location, GIT) THEN find_size_git_all(cd, crate_name)
    ELSE IF str_contains(location, REGISTRY) THEN find_size_registry_all(cd, crate_name)
    ELSE 0

find(cd, crate_name, location) ==
    IF str_contains(location, REGISTRY) THEN find_size_registry_all(cd, crate_name)
    ELSE IF str_contains(location, GIT) THEN find_size_git_all(cd, crate_name)
    ELSE 0

call_find(k, location) ==
    /\ ret.tag # "panic"
    /\ ret' = Ok(find(store, k, location))
    /\ op' = [name |-> "find", key |-> k, label |-> location]
    /\ pre' = store
    /\ nops' = nops + 1
    /\ UNCHANGED <<store, fs, log>>

(***************************************************************************)
(* Spec: the store's operations and the three scanners, in any order, on    *)
(* one store, over one of a few disks.                                      *)
(***************************************************************************)
Labels ==
    {REGISTRY, GIT, GIT \o <<" ">> \o REGISTRY, <<"X">> \o GIT \o <<"S">>,
     <<"R", "E", "G">>, <<"g", "i", "t">>, <<>>}

Tree2 == Dir((<<"x">> :> File(1)) @@ (<<"y">> :> Dir(<<"x">> :> File(1))))

Disks ==
    {Disk(Absent, Absent, Absent, Absent, Absent),
     Disk(Dir((<<"a">> :> File(1)) @@ (<<"b">> :> Tree2)),
          Dir((<<"r">> :> Dir(<<"a">> :> File(1))) @@ (<<"s">> :> Dir(<<"a">> :> Tree2))),
          Dir(<<"r">> :> Dir(<<"a", ".", "c">> :> File(1))),
          Dir(<<"a", "-", "1">> :> Dir(<<"s">> :> Tree2)),
          Dir((<<"a", "-", "1">> :> File(1)) @@ (<<"a", "-", "b", "-", "2">> :> File(1)))),
     Disk(Dir(<<"a">> :> Tree2),
          Absent,
          Dir((<<"r">> :> Dir(<<"a", ".", "c">> :> File(1)))
              @@ (<<"s">> :> Dir(<<"a", ".", "c">> :> Broken))),
          Dir(<<"a", "-", "1">> :> Dir(HEAD :> File(1))),
          Dir(<<"b">> :> File(1)))}

Init ==
    /\ store = CrateDetailDefault
    /\ fs \in Disks
    /\ op = NoOp
    /\ ret = NoRet
    /\ pre = NoPre
    /\ log = EmptyBag
    /\ nops = 0

MoreOps == nops < MaxOps

Next ==
    \/ \E k \in StoreKeys, s \in Sizes : MoreOps /\ add_bin(k, s)
    \/ \E k \in StoreKeys, s \in Sizes : MoreOps /\ add_git_crate_source(k, s)
    \/ \E k \in StoreKeys, s \in Sizes : MoreOps /\ add_registry_crate_source(k, s)
    \/ \E k \in StoreKeys, s \in Sizes : MoreOps /\ add_git_crate_archive(k, s)
    \/ \E k \in StoreKeys, s \in Sizes : MoreOps /\ add_registry_crate_archive(k, s)
    \/ \E k \in StoreKeys, l \in Labels : MoreOps /\ call_find(k, l)
    \/ MoreOps /\ list_installed_bin
    \/ MoreOps /\ list_installed_crate_registry
    \/ MoreOps /\ list_installed_crate_git

Spec == Init /\ [][Next]_vars

KeysKept(cat) == \A k \in DOMAIN store[cat] : k \in DOMAIN store'[cat]
SizesKept(cat) == \A k \in DOMAIN store[cat] : store'[cat][k] >= store[cat][k]

\* C3, as claimed: no operation removes a key from any of the five maps or
\* lowers the size recorded for a key.
C3_Claimed == [][\A cat \in Cats : KeysKept(cat) /\ SizesKept(cat)]_vars

\* C3: no operation removes a key from any of the five maps, and none lowers
\* the size recorded for a key of the four non-binary maps (add_bin
\* overwrites: a binary's size may become smaller).
C3_AccumulateOnly ==
    [][/\ \A cat \in Cats : KeysKept(cat)
       /\ \A cat \in NonBinCats : SizesKept(cat)]_vars

\* a scanner merged a size into a key that an earlier operation had recorded
C3_Witness ==
    /\ op.name \in Scanners
    /\ \E cat \in NonBinCats : \E k \in DOMAIN pre[cat] : store[cat][k] > pre[cat][k]

\* the totals the claims name, from the store's maps
SizeIn(cat, k) == IF k \in DOMAIN store[cat] THEN store[cat][k] ELSE 0
TotalRegistry(k) == SizeIn("registry_crates_source", k) + SizeIn("registry_crates_archive", k)
TotalGit(k) == SizeIn("git_crates_source", k) + SizeIn("git_crates_archive", k)

\* C4, as claimed: find is the registry total for every label that contains
\* REGISTRY, the git total for every label that contains GIT, and 0.0 for
\* every other label, and leaves the store as it was.
C4_Claimed ==
    op.name = "find" =>
        /\ str_contains(op.label, REGISTRY) => ret.val = TotalRegistry(op.key)
        /\ str_contains(op.label, GIT) => ret.val = TotalGit(op.key)
        /\ (~str_contains(op.label, REGISTRY) /\ ~str_contains(op.label, GIT)) => ret.val = 0
        /\ store = pre

\* C4: find is the registry total for every label that contains REGISTRY,
\* the git total for every label that contains GIT and does not contain
\* REGISTRY, and 0.0 for every other label, and leaves the store as it was.
C4_FindDispatch ==
    op.name = "find" =>
        /\ str_contains(op.label, REGISTRY) => ret.val = TotalRegistry(op.key)
        /\ (str_contains(op.label, GIT) /\ ~str_contains(op.label, REGISTRY))
              => ret.val = TotalGit(op.key)
        /\ (~str_contains(op.label, REGISTRY) /\ ~str_contains(op.label, GIT)) => ret.val = 0
        /\ store = pre

\* find with a label that holds both words, on a key whose totals differ
C4_Witness ==
    /\ op.name = "find"
    /\ str_contains(op.label, REGISTRY) /\ str_contains(op.label, GIT)
    /\ TotalRegistry(op.key) # TotalGit(op.key)
    /\ ret.val = TotalRegistry(op.key)
    /\ ret.val > 0

(***************************************************************************)
(* Deletion: delete_folder and delete_index_cache (utils.rs).               *)
(***************************************************************************)
\* the tree without what path p names (p = <<>>: nothing is left)
RECURSIVE Without(_, _)
Without(tree, p) ==
    IF p = <<>> THEN Absent
    ELSE IF tree.kind = "dir" /\ Head(p) \in DOMAIN tree.ents
    THEN LET sub == Without(tree.ents[Head(p)], Tail(p))
         IN  IF sub = Absent
             THEN Dir([e \in (DOMAIN tree.ents) \ {Head(p)} |-> tree.ents[e]])
             ELSE Dir([tree.ents EXCEPT ![Head(p)] = sub])
    ELSE tree

\* the tree with the node at path p (which exists, p # <<>>) replaced
RECURSIVE Replaced(_, _, _)
Replaced(tree, p, node) ==
    IF p = <<>> THEN node
    ELSE Dir([tree.ents EXCEPT ![Head(p)] = Replaced(@, Tail(p), node)])

Removal(node, ok) == [node |-> node, ok |-> ok]

RECURSIVE remove_dir_all(_)
RECURSIVE remove_children(_, _)

\* fs::remove_dir_all on a directory: what can be left of it.  The entries go
\* first, in an order the filesystem chooses, then the directory; a
\* directory that cannot be listed stops the removal with what is left.
remove_dir_all(node) ==
    CASE node.kind = "dir" -> remove_children(node, DOMAIN node.ents)
      [] node.kind = "locked" -> {Removal(node, FALSE)}
      [] OTHER -> {Removal(Absent, TRUE)}

remove_children(dir, todo) ==
    IF todo = {} THEN {Removal(Absent, TRUE)}
    ELSE UNION {UNION {IF r.ok
                       THEN remove_children(Without(dir, <<e>>), todo \ {e})
                       ELSE {Removal(Replaced(dir, <<e>>, r.node), FALSE)} :
                         r \in remove_dir_all(dir.ents[e])} :
                e \in todo}

Deletion(tree, res) == [fs |-> tree, res |-> res]

delete_folder_ignoring_dry_run(tree, p, dry_run) ==
    LET path == NodeAt(tree, p)
    IN  IF path_exists(path) /\ path_is_file(path) THEN {Deletion(Without(tree, p), Ok("unit"))}
        ELSE IF path_exists(path) /\ path_is_dir(path)
        THEN {Deletion(IF r.node = Absent THEN Without(tree, p) ELSE Replaced(tree, p, r.node),
                       IF r.ok THEN Ok("unit") ELSE Err) : r \in remove_dir_all(path)}
        ELSE {Deletion(tree, Ok("unit"))}

\* delete_folder(path, dry_run) on the path p of the tree: the filesystems and
\* results it can end with
delete_folder(tree, p, dry_run) ==
    LET path == NodeAt(tree, p)
    IN  IF path_exists(path)
        THEN IF path_is_file(path)
             THEN IF dry_run THEN {Deletion(tree, Ok("unit"))}
                  ELSE {Deletion(Without(tree, p), Ok("unit"))}
             ELSE IF path_is_dir(path)
             THEN IF dry_run THEN {Deletion(tree, Ok("unit"))}
                  ELSE {Deletion(IF r.node = Absent THEN Without(tree, p)
                                 ELSE Replaced(tree, p, r.node),
                                 IF r.ok THEN Ok("unit") ELSE Err) :
                          r \in remove_dir_all(path)}
             ELSE {Deletion(tree, Ok("unit"))}
        ELSE {Deletion(tree, Ok("unit"))}

DotCache == <<".", "c", "a", "c", "h", "e">>

is_cache_name_any(folder_name) == TRUE

\* folder_name == ".cache"
is_cache_name(folder_name) == folder_name = DotCache

RECURSIVE index_folders(_, _, _, _)
\* the inner loop of delete_index_cache over the entries of one registry
\* directory: d is where the call stands (its filesystem, and Err once a ?
\* has returned)
index_folders(d, registry, todo, dry_run) ==
    IF ~IsOk(d.res) \/ todo = {} THEN {d}
    ELSE UNION {IF is_cache_name(folder)
                THEN UNION {index_folders(d2, registry, todo \ {folder}, dry_run) :
                              d2 \in delete_folder(d.fs, <<registry, folder>>, dry_run)}
                ELSE index_folders(d, registry, todo \ {folder}, dry_run) :
                folder \in todo}

RECURSIVE index_registries(_, _, _)
\* the outer loop of delete_index_cache over the entries of index_dir
index_registries(d, todo, dry_run) ==
    IF ~IsOk(d.res) \/ todo = {} THEN {d}
    ELSE UNION {LET rd == read_dir(NodeAt(d.fs, <<registry>>))
                IN  IF ~IsOk(rd) THEN {Deletion(d.fs, Err)}
                    ELSE UNION {index_registries(d2, todo \ {registry}, dry_run) :
                                  d2 \in index_folders(d, registry, rd.val, dry_run)} :
                registry \in todo}

\* delete_index_cache(index_dir, dry_run), index_dir the root of the tree
delete_index_cache(tree, dry_run) ==
    IF ~IsOk(read_dir(tree)) THEN {Deletion(tree, Err)}
    ELSE index_registries(Deletion(tree, Ok("unit")), read_dir(tree).val, dry_run)

call_delete_folder(p, dry_run) ==
    /\ \E d \in delete_folder(fs, p, dry_run) : fs' = d.fs /\ ret' = d.res
    /\ op' = [name |-> "delete_folder", path |-> p, dry_run |-> dry_run]
    /\ pre' = fs
    /\ nops' = nops + 1
    /\ UNCHANGED <<store, log>>

call_delete_index_cache(dry_run) ==
    /\ \E d \in delete_index_cache(fs, dry_run) : fs' = d.fs /\ ret' = d.res
    /\ op' = [name |-> "delete_index_cache", path |-> <<>>, dry_run |-> dry_run]
    /\ pre' = fs
    /\ nops' = nops + 1
    /\ UNCHANGED <<store, log>>

(***************************************************************************)
(* SpecDelete: one deletion call on a registry index directory.  fs is the   *)
(* tree at index_dir; delete_folder is called on a path below it.            *)
(***************************************************************************)
IndexNames == {<<"i">>, DotCache}
ChildNames == {DotCache, <<"x">>}
ChildNodes == {File(1), Dir(<<>>), Dir(DotCache :> File(1)), Dir(DotCache :> Locked),
               Broken, Locked}
IndexNodes == {Dir(f) : f \in PFun(ChildNames, ChildNodes)} \cup {File(1), Locked}
IndexTrees == {Absent} \cup {Dir(g) : g \in PFun(IndexNames, IndexNodes)}

\* the paths delete_folder is called on: those of the tree, and one that
\* names nothing
DeletePaths == PathsOf(fs) \cup {<<<<"n">>>>}

InitDelete ==
    /\ store = CrateDetailDefault
    /\ fs \in IndexTrees
    /\ op = NoOp
    /\ ret = NoRet
    /\ pre = NoPre
    /\ log = EmptyBag
    /\ nops = 0

NextDelete ==
    \/ \E p \in DeletePaths, dry_run \in BOOLEAN : Fresh /\ call_delete_folder(p, dry_run)
    \/ \E dry_run \in BOOLEAN : Fresh /\ call_delete_index_cache(dry_run)

SpecDelete == InitDelete /\ [][NextDelete]_vars

Deletions == {"delete_folder", "delete_index_cache"}

\* the paths of a tree that name something
Present(tree) == {p \in PathsOf(tree) : NodeAt(tree, p).kind # "absent"}

\* C8: a deletion called with dry_run = true leaves the filesystem exactly as
\* it was, whatever the path names; the filesystem changes only in a call
\* with dry_run = false, and then only by losing a file or a directory
\* subtree.
C8_DryRunChangesNothing ==
    op.name \in Deletions =>
        /\ op.dry_run => fs = pre
        /\ fs # pre => /\ ~op.dry_run
                       /\ Present(fs) \subseteq Present(pre)
                       /\ Present(fs) # Present(pre)
                       /\ \A p \in Present(fs) : NodeAt(fs, p).kind = NodeAt(pre, p).kind
                                                /\ NodeAt(fs, p).len = NodeAt(pre, p).len

\* a dry run of delete_index_cache over an index directory with a .cache
\* directory in it that is not empty
C8_Witness ==
    /\ op.name = "delete_index_cache"
    /\ op.dry_run
    /\ IsOk(ret)
    /\ \E i \in IndexNames :
          /\ NodeAt(pre, <<i, DotCache>>).kind = "dir"
          /\ NodeAt(fs, <<i, DotCache, DotCache>>).kind = "file"

\* the .cache children of the entries of index_dir
CachePaths(tree) == {p \in PathsOf(tree) : Len(p) = 2 /\ p[2] = DotCache}

RECURSIVE Pruned(_, _, _)
\* the tree without the subtrees at the paths of S, everything else kept
Pruned(node, at, S) ==
    IF node.kind = "dir"
    THEN Dir([e \in {x \in DOMAIN node.ents : (at \o <<x>>) \notin S} |->
                 Pruned(node.ents[e], at \o <<e>>, S)])
    ELSE node

\* C9, as claimed: delete_index_cache(index_dir, false) removes the .cache
\* child of every entry of index_dir and leaves everything else.
C9_Claimed ==
    (op.name = "delete_index_cache" /\ ~op.dry_run) =>
        fs = Pruned(pre, <<>>, CachePaths(pre))

\* the .cache children that are files or directories
RemovableCaches(tree) ==
    {p \in CachePaths(tree) : NodeAt(tree, p).kind \in {"file", "dir"}}

\* C9: delete_index_cache(index_dir, false) changes nothing outside the
\* .cache children of the entries of index_dir: every other child, the
\* entries themselves and a .cache at another depth stay as they were, and
\* nothing is created.  When it returns Ok it has removed, with its subtree,
\* every such .cache that is a file or a directory, and only that; when it
\* returns Err some of them may remain, whole or in part.
C9_OnlyCachesRemoved ==
    (op.name = "delete_index_cache" /\ ~op.dry_run) =>
        /\ Pruned(fs, <<>>, CachePaths(pre)) = Pruned(pre, <<>>, CachePaths(pre))
        /\ Present(fs) \subseteq Present(pre)
        /\ IsOk(ret) => fs = Pruned(pre, <<>>, RemovableCaches(pre))

\* a .cache directory was removed from beside a child that stays, while a
\* .cache deeper in the tree and the entry of index_dir named .cache stay
C9_Witness ==
    /\ op.name = "delete_index_cache"
    /\ ~op.dry_run
    /\ IsOk(ret)
    /\ NodeAt(pre, <<DotCache, DotCache>>).kind = "dir"
    /\ NodeAt(fs, <<DotCache, DotCache>>).kind = "absent"
    /\ NodeAt(fs, <<DotCache, <<"x">>, DotCache>>).kind = "file"

(***************************************************************************)
(* split_name_version (utils.rs).  A name is a sequence of characters.      *)
(***************************************************************************)
RECURSIVE str_split(_, _)
\* str::split(sep) collected: the pieces between the separators, one more
\* than there are separators (the empty string gives one empty piece)
str_split(s, sep) ==
    IF SepAt(s, sep) = {} THEN <<s>>
    ELSE LET i == MinOf(SepAt(s, sep))
         IN  <<SubSeq(s, 1, i - 1)>> \o str_split(SubSeq(s, i + 1, Len(s)), sep)

RECURSIVE str_join(_, _)
\* [&str]::join(sep)
str_join(parts, sep) ==
    IF parts = <<>> THEN <<>>
    ELSE IF Len(parts) = 1 THEN parts[1]
    ELSE parts[1] \o <<sep>> \o str_join(Tail(parts), sep)

Digits == {"0", "1", "2"}
Letters == {"a", "b"}

\* a numeric identifier of a version: digits, without a leading zero
is_numeric_identifier(t) ==
    /\ t # <<>>
    /\ \A i \in 1..Len(t) : t[i] \in Digits
    /\ Len(t) > 1 => t[1] # "0"

\* an identifier of the build metadata
is_build_identifier(t) ==
    /\ t # <<>>
    /\ \A i \in 1..Len(t) : t[i] \in Digits \cup Letters

\* major.minor.patch
is_version_core(t) ==
    LET ids == str_split(t, ".")
    IN  Len(ids) = 3 /\ \A i \in 1..3 : is_numeric_identifier(ids[i])

\* semver::Version::parse(split_part).is_ok().  A piece of split('-') holds
\* no hyphen, so no pre-release: major.minor.patch, then + and the build
\* metadata if any
is_semver(split_part) ==
    IF SepAt(split_part, "+") = {} THEN is_version_core(split_part)
    ELSE LET i == MinOf(SepAt(split_part, "+"))
         IN  /\ is_version_core(SubSeq(split_part, 1, i - 1))
             /\ LET build == str_split(SubSeq(split_part, i + 1, Len(split_part)), ".")
                IN  \A j \in 1..Len(build) : is_build_identifier(build[j])

SemverAt(version_split) == {pos \in 1..Len(version_split) : is_semver(version_split[pos])}

last_semver_position(version_split) ==
    IF SemverAt(version_split) = {} THEN Len(version_split) + 1
    ELSE MaxOf(SemverAt(version_split))

\* version_start_position, counted from 1: the first piece that parses as a
\* version, or one past the last piece
version_start_position(version_split) ==
    IF SemverAt(version_split) = {} THEN Len(version_split) + 1
    ELSE MinOf(SemverAt(version_split))

split_name_version(full_name) ==
    LET version_split == str_split(full_name, "-")
        pos == version_start_position(version_split)
        clear_name_vec == SubSeq(version_split, 1, pos - 1)
        version_vec == SubSeq(version_split, pos, Len(version_split))
    IN  <<str_join(clear_name_vec, "-"), str_join(version_vec, "-")>>

call_split_name_version(full_name) ==
    /\ op' = [name |-> "split_name_version", full_name |-> full_name]
    /\ ret' = Ok(split_name_version(full_name))
    /\ nops' = nops + 1
    /\ UNCHANGED <<store, fs, pre, log>>

(***************************************************************************)
(* SpecSplit: one call of split_name_version on a name of up to MaxTokens   *)
(* hyphen-separated tokens.                                                 *)
(***************************************************************************)
Tokens ==
    { <<>>, <<"a">>, <<"1", ".", "2">>, <<"1", ".", "2", ".", "0">>,
      <<"0", "1", ".", "2", ".", "0">>, <<"1", ".", "2", ".", "0", "+", "b">> }

TokenLists == UNION {[1..n -> Tokens] : n \in 1..MaxTokens}
FullNames == {str_join(ts, "-") : ts \in TokenLists}

InitSplit ==
    /\ store = CrateDetailDefault
    /\ fs = NoFs
    /\ op = NoOp
    /\ ret = NoRet
    /\ pre = NoPre
    /\ log = EmptyBag
    /\ nops = 0

NextSplit == \E full_name \in FullNames : Fresh /\ call_split_name_version(full_name)

SpecSplit == InitSplit /\ [][NextSplit]_vars

\* the tokens of a part that holds count tokens
TokensOf(part, count) == IF count = 0 THEN <<>> ELSE str_split(part, "-")

\* C10: split_name_version splits the hyphen-separated tokens of the name at
\* the first token that is a valid version: no token before it is one, the
\* name-part is the hyphen-join of the tokens before it and the version-part
\* the hyphen-join of it and the tokens after it; with no valid token the
\* name-part is the input and the version-part is empty.  The tokens of the
\* name-part followed by those of the version-part are the tokens of the
\* input, and their hyphen-join is the input.
C10_SplitAtFirstVersion ==
    op.name = "split_name_version" =>
        LET tokens == str_split(op.full_name, "-")
            name == ret.val[1]
            version == ret.val[2]
        IN  \E p \in 1..(Len(tokens) + 1) :
               LET before == TokensOf(name, p - 1)
                   after == TokensOf(version, Len(tokens) + 1 - p)
               IN  /\ \A i \in 1..(p - 1) : ~is_semver(tokens[i])
                   /\ p <= Len(tokens) => is_semver(tokens[p])
                   /\ name = str_join(SubSeq(tokens, 1, p - 1), "-")
                   /\ version = str_join(SubSeq(tokens, p, Len(tokens)), "-")
                   /\ p = Len(tokens) + 1 => name = op.full_name /\ version = <<>>
                   /\ before \o after = tokens
                   /\ str_join(before \o after, "-") = op.full_name
                   /\ (name # <<>> /\ version # <<>>) =>
                          name \o <<"-">> \o version = op.full_name

\* a name of three tokens split after the first: the second and the third
\* are both valid versions
C10_Witness ==
    /\ op.name = "split_name_version"
    /\ LET tokens == str_split(op.full_name, "-")
       IN  /\ Len(tokens) = 3
           /\ ~is_semver(tokens[1])
           /\ is_semver(tokens[2])
           /\ is_semver(tokens[3])
           /\ ret.val = <<tokens[1], tokens[2] \o <<"-">> \o tokens[3]>>
           /\ tokens[1] # <<>>

(***************************************************************************)
(* convert_pretty (utils.rs).  A u64 byte count is written in base 1000,    *)
(* most significant digit first and without a leading zero digit (0 is      *)
(* <<0>>): its number of digits is what floor(log10(num) / 3) reads, and     *)
(* dividing by a power of 1000 cuts the digits in two.                       *)
(***************************************************************************)
U64Max == <<18, 446, 744, 73, 709, 551, 615>>

\* a <= b, for two numbers in base 1000
NumLeq(a, b) ==
    \/ Len(a) < Len(b)
    \/ /\ Len(a) = Len(b)
       /\ \/ a = b
          \/ \E i \in 1..Len(a) : SubSeq(a, 1, i - 1) = SubSeq(b, 1, i - 1) /\ a[i] < b[i]

RECURSIVE NumValue(_)
\* the integer a short number in base 1000 stands for
NumValue(a) == IF a = <<>> THEN 0 ELSE NumValue(SubSeq(a, 1, Len(a) - 1)) * 1000 + a[Len(a)]

units == << <<"B">>, <<"k", "B">>, <<"M", "B">>, <<"G", "B">>, <<"T", "B">> >>

\* (num.log10() / 3_f64).floor().  Where the f64 logarithm of a number just
\* below a power of 1000 rounds up to the next integer, the number has 15
\* decimal digits or more and power_factor is 4 either way.
factor(num) == Len(num) - 1

power_factor(num) == IF factor(num) >= Len(units) THEN Len(units) - 1 ELSE factor(num)

\* the digits of num / 1000^power_factor that {:.3} drops
dropped(num) == SubSeq(num, Len(num) - power_factor(num) + 2, Len(num))

AllAre(digits, d) == \A i \in 1..Len(digits) : digits[i] = d

\* the dropped digits against one half of the last place kept
above_half(rest) == rest # <<>> /\ (rest[1] > 500 \/ (rest[1] = 500 /\ ~AllAre(Tail(rest), 0)))
at_half(rest) == rest # <<>> /\ rest[1] = 500 /\ AllAre(Tail(rest), 0)

\* num as f64 and the division are rounded to 53 bits: from 16 decimal
\* digits on, a quotient less than 3000 bytes from the half is not told from
\* the half
near_half(num, rest) ==
    /\ Len(num) >= 6
    /\ Len(rest) >= 2
    /\ LET lead == SubSeq(rest, 1, Len(rest) - 2)
           next == rest[Len(rest) - 1]
       IN  \/ lead # <<>> /\ lead[1] = 500 /\ AllAre(Tail(lead), 0) /\ next <= 2
           \/ lead # <<>> /\ lead[1] = 499 /\ AllAre(Tail(lead), 999) /\ next >= 997

\* whether {:.3} rounds the last place up: the half itself has no exact f64,
\* so a quotient at it goes the way its nearest f64 lies
rounds_up(num) ==
    LET rest == dropped(num)
    IN  IF at_half(rest) \/ near_half(num, rest) THEN BOOLEAN
        ELSE {above_half(rest)}

Decimal(whole, milli) == [whole |-> whole, milli |-> milli]

\* format!("{:.3}", num / 1000_f64.powf(power_factor)).parse::<f64>(): the
\* values it can give, in whole units and thousandths
pretty_bytes(num) ==
    LET pf == power_factor(num)
        whole == NumValue(SubSeq(num, 1, Len(num) - pf))
        milli == IF pf = 0 THEN 0 ELSE num[Len(num) - pf + 1]
    IN  {IF up THEN (IF milli = 999 THEN Decimal(whole + 1, 0) ELSE Decimal(whole, milli + 1))
         ELSE Decimal(whole, milli) : up \in rounds_up(num)}

DigitChars == <<"0", "1", "2", "3", "4", "5", "6", "7", "8", "9">>

RECURSIVE int_to_string(_)
int_to_string(n) ==
    IF n < 10 THEN <<DigitChars[n + 1]>>
    ELSE int_to_string(n \div 10) \o <<DigitChars[(n % 10) + 1]>>

\* the decimals of a value with thousandths, the zeros at the end left out
fraction_to_string(milli) ==
    IF milli % 10 # 0 THEN int_to_string(milli \div 100) \o int_to_string((milli \div 10) % 10)
                           \o int_to_string(milli % 10)
    ELSE IF milli % 100 # 0 THEN int_to_string(milli \div 100) \o int_to_string((milli \div 10) % 10)
    ELSE int_to_string(milli \div 100)

\* Display of an f64 that holds at most three decimals
f64_to_string(x) ==
    IF x.milli = 0 THEN int_to_string(x.whole)
    ELSE int_to_string(x.whole) \o <<".">> \o fraction_to_string(x.milli)

\* convert_pretty(num): the strings it can return
convert_pretty(num) ==
    IF num = <<0>> THEN {<<"0", " ", "B">>}
    ELSE {f64_to_string(x) \o <<" ">> \o units[power_factor(num) + 1] : x \in pretty_bytes(num)}

call_convert_pretty(num) ==
    /\ op' = [name |-> "convert_pretty", num |-> num]
    /\ \E text \in convert_pretty(num) : ret' = Ok(text)
    /\ nops' = nops + 1
    /\ UNCHANGED <<store, fs, pre, log>>

(***************************************************************************)
(* SpecPretty: one call of convert_pretty on a u64.                         *)
(***************************************************************************)
PrettyDigits == {0, 1, 499, 500, 940, 999}

\* the u64 values written with the digits of PrettyDigits
PrettyNums ==
    {<<0>>} \cup
    {num \in UNION {[1..n -> PrettyDigits] : n \in 1..Len(U64Max)} :
        num[1] # 0 /\ NumLeq(num, U64Max)}

InitPretty ==
    /\ store = CrateDetailDefault
    /\ fs = NoFs
    /\ op = NoOp
    /\ ret = NoRet
    /\ pre = NoPre
    /\ log = EmptyBag
    /\ nops = 0

NextPretty == Fresh /\ \E num \in PrettyNums : call_convert_pretty(num)

SpecPretty == InitPretty /\ [][NextPretty]_vars

\* what a returned text shows: the digits before the decimal point and the unit
ShownWhole(text) == str_split(str_split(text, " ")[1], ".")[1]
ShownUnit(text) == str_split(text, " ")[2]
ShownBelow1000(text) == Len(ShownWhole(text)) <= 3
ShownBelow1(text) == ShownWhole(text) = <<"0">>
TB == units[Len(units)]

\* C11, as claimed: the text of convert_pretty(n) shows 0 as "0 B" and any
\* other n in one of the units B, kB, MB, GB, TB, with a magnitude that,
\* rounded to three decimals, is at least 1 and less than 1000; it shows 1000
\* or more only in TB, and only for n of 1000 TB or more.
C11_Claimed ==
    op.name = "convert_pretty" =>
        /\ op.num = <<0>> => ret.val = <<"0", " ", "B">>
        /\ \E u \in 1..Len(units) : ShownUnit(ret.val) = units[u]
        /\ op.num # <<0>> => ~ShownBelow1(ret.val)
        /\ ~ShownBelow1000(ret.val) => ShownUnit(ret.val) = TB /\ Len(op.num) >= 6

\* convert_pretty(999999999) returns "1000 MB"
C11_Witness ==
    /\ op.name = "convert_pretty"
    /\ op.num = <<999, 999, 999>>
    /\ ret = Ok(<<"1", "0", "0", "0", " ", "M", "B">>)

(***************************************************************************)
(* SpecAdd: add_*_crate_* calls on a store that starts empty.               *)
(***************************************************************************)
InitAdd ==
    /\ store = CrateDetailDefault
    /\ fs = NoFs
    /\ op = NoOp
    /\ ret = NoRet
    /\ pre = NoPre
    /\ log = EmptyBag
    /\ nops = 0

MoreCalls == nops < MaxCalls

NextAdd ==
    \/ \E k \in StoreKeys, s \in Sizes : MoreCalls /\ add_git_crate_source(k, s)
    \/ \E k \in StoreKeys, s \in Sizes : MoreCalls /\ add_registry_crate_source(k, s)
    \/ \E k \in StoreKeys, s \in Sizes : MoreCalls /\ add_git_crate_archive(k, s)
    \/ \E k \in StoreKeys, s \in Sizes : MoreCalls /\ add_registry_crate_archive(k, s)

SpecAdd == InitAdd /\ [][NextAdd]_vars

\* the calls of the log made with this category and key
CallsFor(cat, k) == {c \in BagToSet(log) : c.cat = cat /\ c.key = k}

\* the sum of the sizes of those calls, each counted as often as it was made
AddedTotal(cat, k) ==
    SumOver(CallsFor(cat, k), [c \in CallsFor(cat, k) |-> c.size * CopiesIn(c, log)])

\* C1: in each of the four non-binary categories a key is recorded exactly
\* when some call added to it, and its size is the sum of the sizes added
\* under it; the store is thereby a function of the bag of calls, the same
\* for every order in which they are made.
C1_AccumulatedSum ==
    \A cat \in NonBinCats : \A k \in StoreKeys :
        /\ (k \in DOMAIN store[cat]) <=> (CallsFor(cat, k) # {})
        /\ (k \in DOMAIN store[cat]) => store[cat][k] = AddedTotal(cat, k)

\* a key that received three adds of different sizes in one category
C1_Witness ==
    \E cat \in NonBinCats : \E k \in StoreKeys :
        /\ BagCardinality(log) = 3
        /\ Cardinality(CallsFor(cat, k)) >= 2
        /\ \A c \in BagToSet(log) : c.cat = cat /\ c.key = k
        /\ store[cat][k] = AddedTotal(cat, k)
        /\ store[cat][k] >= 4

====
